---- MODULE Spec2Model ----
(***************************************************************************)
(* A model of my-fuse (src/src/lib.rs): the in-memory inode table, the      *)
(* node objects behind it, their reader/writer locks, and the dispatcher    *)
(* operations of `impl FileSystem for MyFileSystem`.                        *)
(*                                                                          *)
(* Every handler is translated into its steps.  A step starts at a lock     *)
(* acquisition (the only place a handler can block) and runs up to the next *)
(* one.  The steps are written as operators from a state record to the set  *)
(* of successor records (empty when the lock is not available), so that the *)
(* same translation serves two kinds of specification:                      *)
(*   - the interleaved ones (SpecDirConc, SpecIOConc), where the worker     *)
(*     threads take one step at a time, and                                 *)
(*   - the sequential ones (Spec, SpecIO), where a request runs all its     *)
(*     steps before the next request is delivered.                          *)
(*                                                                          *)
(* Names are numbered 1..MaxNames in their lexicographic (BTreeMap) order.  *)
(* File bytes are 0 (the fill byte of Vec::resize) and 1..MaxByte.          *)
(* MAX_FILE_SIZE is scaled down from 4294967296 to a length sequences can   *)
(* reach; nothing else depends on its value.                                *)
(***************************************************************************)
EXTENDS Integers, Sequences, FiniteSets, TLC

VARIABLES
    nodes,                  \* MyFileSystem.nodes: slot i holds an object id, 0 for None
    reusable_inode_queue,   \* MyFileSystem.reusable_inode_queue
    heap,                   \* the Arc<RwLock<Node>> objects, by object id
    nodes_lock,             \* writer of the RwLock around nodes (0: none)
    queue_lock,             \* writer of the RwLock around the queue (0: none)
    th,                     \* the worker threads: position, arguments, locals, result
    last_removed,           \* history: inode of the last removal with no allocation since
    transport,              \* what channel.get_request() has to give: "open", "eos", "failed"
    session                 \* ServerSession::start: "get_request", "no_message", "returned"

vars == <<nodes, reusable_inode_queue, heap, nodes_lock, queue_lock, th, last_removed,
          transport, session>>

---------------------------------------------------------------------------
(* Bounds *)

NThreads == 2
MaxSlots == 3
MaxNames == 2
MaxByte == 1
MaxBuf == 2
MAX_FILE_SIZE == 2

\* The threads that run handlers.  ServerSession::start serves every request on
\* the one thread that calls it (worker 1); the further workers are those of the
\* scheduling model the handlers are written for (&self behind RwLocks, requests
\* delivered to several worker threads), which the session loop does not start.
Threads == 1..NThreads
Names == 1..MaxNames
Inodes == 1..MaxSlots
Bytes == 1..MaxByte
\* The longest content the bounded writes and truncations may produce; it is
\* above MAX_FILE_SIZE so that the limit can be crossed.
ContentCap == MAX_FILE_SIZE + 1
\* One object per slot, and at most two stale handles per thread.
ObjIds == 1..(MaxSlots + 2 * NThreads)

RECURSIVE SeqsUpTo(_, _)
SeqsUpTo(S, n) ==
    IF n = 0 THEN {<<>>}
    ELSE LET shorter == SeqsUpTo(S, n - 1)
         IN shorter \cup {Append(s, x) : s \in {q \in shorter : Len(q) = n - 1}, x \in S}

Bufs == SeqsUpTo(Bytes, MaxBuf)

Min(a, b) == IF a < b THEN a ELSE b

---------------------------------------------------------------------------
(* std::sync::RwLock: one writer or any number of readers.  r[t] counts   *)
(* the read guards thread t holds; ww[t] says that thread t is parked in   *)
(* write().  The lock prefers writers: read() is refused while a writer    *)
(* holds the lock and also while one is parked for it, even when the       *)
(* caller holds a read guard of the same lock already.  The unlock that    *)
(* frees the lock wakes the parked writers: until one of them has taken    *)
(* the lock, or has parked again, read() is granted.                       *)

NoLock == [w |-> 0, r |-> [t \in Threads |-> 0], ww |-> [t \in Threads |-> FALSE]]
CanRead(l) == l.w = 0 /\ \A t \in Threads : ~l.ww[t]
CanWrite(l) == l.w = 0 /\ \A t \in Threads : l.r[t] = 0
\* The lock has become free: the parked writers are woken.
Woken(l) ==
    IF l.w = 0 /\ \A t \in Threads : l.r[t] = 0
    THEN [l EXCEPT !.ww = [t \in Threads |-> FALSE]]
    ELSE l
AcqRead(l, t) == [l EXCEPT !.r[t] = @ + 1]
RelRead(l, t) == Woken([l EXCEPT !.r[t] = @ - 1])
AcqWrite(l, t) == [l EXCEPT !.w = t, !.ww[t] = FALSE]
\* write() finds the lock taken: the thread parks as a waiting writer.
ParkWrite(l, t) == [l EXCEPT !.ww[t] = TRUE]
\* The thread has left write(): it waits no more.
Unpark(l, t) == [l EXCEPT !.ww[t] = FALSE]
RelWrite(l) == Woken([l EXCEPT !.w = 0])

---------------------------------------------------------------------------
(* Node objects *)

NoEntries == [n \in Names |-> 0]

\* An unused object id.
FreeObj ==
    [kind |-> "None", inode |-> 0, entries |-> NoEntries, data |-> <<>>,
     lock |-> NoLock, dlock |-> NoLock, inserted |-> {}, committed |-> <<>>]

\* Node::new_folder
new_folder(inode) == [FreeObj EXCEPT !.kind = "Folder", !.inode = inode]

\* Node::new_file
new_file(inode) == [FreeObj EXCEPT !.kind = "File", !.inode = inode]

EntryCount(obj) == Cardinality({n \in Names : obj.entries[n] # 0})

NoRet == [kind |-> "none", ino |-> 0, size |-> 0, ftype |-> "None",
          bytes |-> <<>>, list |-> <<>>]
Err(kind) == [NoRet EXCEPT !.kind = kind]

\* Node::get_entry: the attributes are derived from the node's state.
get_entry(obj) ==
    [NoRet EXCEPT !.kind = "Ok", !.ino = obj.inode, !.ftype = obj.kind,
                  !.size = IF obj.kind = "File" THEN Len(obj.data) ELSE EntryCount(obj)]

---------------------------------------------------------------------------
(* Threads *)

IdleThread ==
    [pc |-> "idle", op |-> "none", ino |-> 0, name |-> 0, ino2 |-> 0, name2 |-> 0,
     size |-> 0, off |-> 0, buf |-> <<>>, valid |-> {},
     h1 |-> 0, h2 |-> 0, x |-> 0, todo |-> <<>>, i |-> 0, tail |-> <<>>, snap |-> <<>>,
     ret |-> NoRet]

\* The state as one record, for the step operators.
Cur ==
    [nodes |-> nodes, reusable_inode_queue |-> reusable_inode_queue, heap |-> heap,
     nodes_lock |-> nodes_lock, queue_lock |-> queue_lock, th |-> th,
     last_removed |-> last_removed]

\* Objects nobody holds a share of are dropped (Arc's reference count).
Referenced(S) ==
    {S.nodes[i] : i \in 1..Len(S.nodes)}
        \cup {S.th[t].h1 : t \in Threads} \cup {S.th[t].h2 : t \in Threads}

Collect(S) ==
    [S EXCEPT !.heap = [o \in ObjIds |-> IF o \in Referenced(S) THEN S.heap[o] ELSE FreeObj]]

Become(S) ==
    LET C == Collect(S)
    IN /\ nodes' = C.nodes
       /\ reusable_inode_queue' = C.reusable_inode_queue
       /\ heap' = C.heap
       /\ nodes_lock' = C.nodes_lock
       /\ queue_lock' = C.queue_lock
       /\ th' = C.th
       /\ last_removed' = C.last_removed
       /\ UNCHANGED <<transport, session>>

NewObj(S) == CHOOSE o \in ObjIds : S.heap[o].kind = "None" /\ \A p \in 1..(o - 1) : S.heap[p].kind # "None"

\* The handler returns: its handles are dropped, the request's arguments and the
\* reply stay until the reply is collected.
Reply(S, t, ret) ==
    [S EXCEPT !.th[t] = [@ EXCEPT !.pc = "done", !.h1 = 0, !.h2 = 0, !.x = 0,
                                  !.todo = <<>>, !.i = 0, !.tail = <<>>, !.ret = ret]]

Goto(S, t, pc) == [S EXCEPT !.th[t].pc = pc]

\* A name that is not valid UTF-8: name.to_str() is Err.
BadName == 0
\* The writer field of a poisoned lock.  The lock is free: read() and write()
\* on it return Err, and the .unwrap() of the caller panics.
Poisoned == NThreads + 1
IsPoisoned(l) == l.w = Poisoned

\* name.to_str().unwrap() on a name that is not UTF-8 panics.  The handler
\* unwinds: its guards are dropped, a write guard dropped while panicking
\* poisons its lock, and the request never returns.
Panic(S, t) ==
    LET unwound(l) ==
            IF l.w = t THEN [l EXCEPT !.w = Poisoned, !.ww = [u \in Threads |-> FALSE]]
            ELSE IF l.r[t] > 0 THEN Woken([l EXCEPT !.r[t] = 0])
            ELSE l
        table(w) == IF w = t THEN Poisoned ELSE w
    IN [S EXCEPT !.heap = [o \in ObjIds |-> [S.heap[o] EXCEPT !.lock = unwound(@),
                                                              !.dlock = unwound(@)]],
                 !.nodes_lock = table(@), !.queue_lock = table(@),
                 !.th[t] = [@ EXCEPT !.pc = "panicked", !.h1 = 0, !.h2 = 0, !.x = 0,
                                     !.todo = <<>>, !.i = 0, !.tail = <<>>,
                                     !.ret = Err("panic")]]

---------------------------------------------------------------------------
(* Inode table *)

\* nodes[inode as usize - 1] panics for inode 0 and for an inode past the
\* last slot; the nodes.read() guard is dropped by the unwinding.
IndexOutOfBounds == -1

\* MyFileSystem::load, under the table's read lock: the object in slot inode-1,
\* 0 when the slot is None.
load(S, inode) ==
    IF inode \in 1..Len(S.nodes) THEN S.nodes[inode] ELSE IndexOutOfBounds

\* pop_back taken from the wrong end of the list (pop_front).
pop_front(queue) ==
    IF queue = <<>> THEN <<0, <<>>>>
    ELSE <<queue[1], SubSeq(queue, 2, Len(queue))>>

\* LinkedList::pop_back: <<the last inode, the rest>>, inode 0 for None.
pop_back(queue) ==
    IF queue = <<>> THEN <<0, <<>>>>
    ELSE <<queue[Len(queue)], SubSeq(queue, 1, Len(queue) - 1)>>

\* push_back of the slot's index (inode - 1) instead of the inode.
push_back_index(queue, inode) == Append(queue, inode - 1)

\* LinkedList::push_back
push_back(queue, inode) == Append(queue, inode)

---------------------------------------------------------------------------
(* Lock operations on the state record *)

LockR(S, o, t) == [S EXCEPT !.heap[o].lock = AcqRead(@, t)]
UnlockR(S, o, t) == [S EXCEPT !.heap[o].lock = RelRead(@, t)]
LockW(S, o, t) == [S EXCEPT !.heap[o].lock = AcqWrite(@, t)]
UnlockW(S, o) == [S EXCEPT !.heap[o].lock = RelWrite(@)]
\* write() on a node's lock, or on a file's data lock, that cannot be granted
\* now: the thread parks once and then has no step until the lock is free.
WaitW(S, o, t) ==
    IF S.heap[o].lock.ww[t] THEN {} ELSE {[S EXCEPT !.heap[o].lock = ParkWrite(@, t)]}
WaitDataW(S, o, t) ==
    IF S.heap[o].dlock.ww[t] THEN {} ELSE {[S EXCEPT !.heap[o].dlock = ParkWrite(@, t)]}

\* self.nodes.read() / self.nodes.write() / self.reusable_inode_queue.write():
\* the read guard of load and the queue's guard in next_inode live inside one step.
TableReadable(S) == S.nodes_lock = 0
TableWritable(S) == S.nodes_lock = 0
QueueWritable(S) == S.queue_lock = 0

---------------------------------------------------------------------------
(* Directory entries (BTreeMap<String, Inode>) *)

RECURSIVE NamesFrom(_, _)
\* The names of a folder from name n on, in the map's (lexicographic) order.
NamesFrom(obj, n) ==
    IF n > MaxNames THEN <<>>
    ELSE IF obj.entries[n] # 0 THEN <<n>> \o NamesFrom(obj, n + 1)
    ELSE NamesFrom(obj, n + 1)

RECURSIVE NamesDownFrom(_, _)
\* The names of a folder from name n down: the reverse of the map's order, which
\* the code never produces.
NamesDownFrom(obj, n) ==
    IF n < 1 THEN <<>>
    ELSE IF obj.entries[n] # 0 THEN <<n>> \o NamesDownFrom(obj, n - 1)
    ELSE NamesDownFrom(obj, n - 1)

\* iteration in the reverse of the map's order.
EntriesIterRev(obj) == NamesDownFrom(obj, MaxNames)

\* folder.entries.iter()
EntriesIter(obj) == NamesFrom(obj, 1)

\* .skip(offset).take(size)
SkipTake(s, offset, size) == SubSeq(s, offset + 1, Min(Len(s), offset + size))

\* folder.entries.insert(name, inode)
Insert(S, o, name, inode) ==
    [S EXCEPT !.heap[o].entries[name] = inode, !.heap[o].inserted = @ \cup {name}]

\* remove that empties the map when the name is not in it.
RemoveOrClear(S, o, name) ==
    IF S.heap[o].entries[name] # 0
    THEN [S EXCEPT !.heap[o].entries[name] = 0, !.heap[o].inserted = @ \ {name}]
    ELSE [S EXCEPT !.heap[o].entries = NoEntries, !.heap[o].inserted = {}]

\* folder.entries.remove(name): leaves the map as it is when the name is not in it
Remove(S, o, name) ==
    [S EXCEPT !.heap[o].entries[name] = 0, !.heap[o].inserted = @ \ {name}]

---------------------------------------------------------------------------
(* File content (Vec<u8>) *)

\* read: the range offset..offset+size clamped to the content's length.
ReadRange(data, offset, size) ==
    LET start == IF offset >= Len(data) THEN Len(data) ELSE offset
        end == IF offset + size >= Len(data) THEN Len(data) ELSE offset + size
    IN SubSeq(data, start + 1, end)

\* write: the range offset..offset+buf_size clamped to the content's length and
\* then to MAX_FILE_SIZE, as <<start, end>>.
WriteRange(len, offset, buf_size) ==
    LET start1 == IF offset >= len THEN len ELSE offset
        end1 == IF offset + buf_size >= len THEN len ELSE offset + buf_size
        start2 == IF start1 >= MAX_FILE_SIZE THEN MAX_FILE_SIZE ELSE start1
        end2 == IF end1 >= MAX_FILE_SIZE THEN MAX_FILE_SIZE ELSE end1
    IN <<start2, end2>>

\* data.splice(range, buf): what the vector holds while the range is drained
\* (its length is range.start), the tail kept aside, and the vector once the
\* buffer is filled in and the tail moved back.
Drained(data, range) == SubSeq(data, 1, range[1])
DrainTail(data, range) == SubSeq(data, range[2] + 1, Len(data))
SpliceFill(prefix, buf, tail) == prefix \o buf \o tail

\* resize that grows but never shrinks.
ResizeGrowOnly(data, target_size) ==
    IF target_size <= Len(data) THEN data
    ELSE [i \in 1..target_size |-> IF i <= Len(data) THEN data[i] ELSE 0]

\* data.resize(target_size, 0)
Resize(data, target_size) ==
    IF target_size = 0 THEN <<>>
    ELSE [i \in 1..target_size |-> IF i <= Len(data) THEN data[i] ELSE 0]

---------------------------------------------------------------------------
(* lookup(parent, name) *)

lookup_step(S, t) ==
    LET me == S.th[t] IN
    CASE me.pc = "lookup_load" ->
            \* self.load(parent)
            IF S.nodes_lock = Poisoned THEN {Panic(S, t)}
            ELSE IF ~TableReadable(S) THEN {}
            ELSE IF load(S, me.ino) = IndexOutOfBounds THEN {Panic(S, t)}
            ELSE IF load(S, me.ino) = 0 THEN {Reply(S, t, Err("NotFound"))}
            ELSE {[S EXCEPT !.th[t].h1 = load(S, me.ino), !.th[t].pc = "lookup_parent"]}
      [] me.pc = "lookup_parent" ->
            \* e.read(); match &node.inner; folder.entries.get(name.to_str().unwrap())
            \* (the debug! line before it formats the name only when debug
            \* logging is on; it is taken to be off)
            LET p == S.heap[me.h1] IN
            IF IsPoisoned(p.lock) THEN {Panic(S, t)}
            ELSE IF ~CanRead(p.lock) THEN {}
            ELSE IF p.kind # "Folder" THEN {Reply(S, t, Err("NotFound"))}
            ELSE IF me.name = BadName THEN {Panic(LockR(S, me.h1, t), t)}
            ELSE IF p.entries[me.name] = 0 THEN {Reply(S, t, Err("NotFound"))}
            ELSE {[LockR(S, me.h1, t) EXCEPT !.th[t].x = p.entries[me.name],
                                             !.th[t].pc = "lookup_child_load"]}
      [] me.pc = "lookup_child_load" ->
            \* self.load(*inode)?
            IF S.nodes_lock = Poisoned THEN {Panic(S, t)}
            ELSE IF ~TableReadable(S) THEN {}
            ELSE IF load(S, me.x) = 0
                 THEN {Reply(UnlockR(S, me.h1, t), t, Err("NotFound"))}
            ELSE {[S EXCEPT !.th[t].h2 = load(S, me.x), !.th[t].pc = "lookup_child"]}
      [] me.pc = "lookup_child" ->
            \* rw_lock.read(); entry.get_entry() of a folder
            LET c == S.heap[me.h2] IN
            IF IsPoisoned(c.lock) THEN {Panic(S, t)}
            ELSE IF ~CanRead(c.lock) THEN {}
            ELSE IF c.kind = "Folder"
                 THEN {Reply(UnlockR(S, me.h1, t), t, get_entry(c))}
            ELSE {Goto(LockR(S, me.h2, t), t, "lookup_size")}
      [] me.pc = "lookup_size" ->
            \* get_entry of a file: file.data.read().len()
            LET c == S.heap[me.h2] IN
            IF IsPoisoned(c.dlock) THEN {Panic(S, t)}
            ELSE IF ~CanRead(c.dlock) THEN {}
            ELSE {Reply(UnlockR(UnlockR(S, me.h2, t), me.h1, t), t, get_entry(c))}
      [] OTHER -> {}

---------------------------------------------------------------------------
(* getattr(inode) *)

getattr_step(S, t) ==
    LET me == S.th[t] IN
    CASE me.pc = "getattr_load" ->
            IF S.nodes_lock = Poisoned THEN {Panic(S, t)}
            ELSE IF ~TableReadable(S) THEN {}
            ELSE IF load(S, me.ino) = IndexOutOfBounds THEN {Panic(S, t)}
            ELSE IF load(S, me.ino) = 0 THEN {Reply(S, t, Err("NotFound"))}
            ELSE {[S EXCEPT !.th[t].h1 = load(S, me.ino), !.th[t].pc = "getattr_node"]}
      [] me.pc = "getattr_node" ->
            \* e.read().get_entry()
            LET n == S.heap[me.h1] IN
            IF IsPoisoned(n.lock) THEN {Panic(S, t)}
            ELSE IF ~CanRead(n.lock) THEN {}
            ELSE IF n.kind = "Folder" THEN {Reply(S, t, get_entry(n))}
            ELSE {Goto(LockR(S, me.h1, t), t, "getattr_size")}
      [] me.pc = "getattr_size" ->
            LET n == S.heap[me.h1] IN
            IF IsPoisoned(n.dlock) THEN {Panic(S, t)}
            ELSE IF ~CanRead(n.dlock) THEN {}
            ELSE {Reply(UnlockR(S, me.h1, t), t, get_entry(n))}
      [] OTHER -> {}

---------------------------------------------------------------------------
(* setattr(inode, attr, valid): valid (me.valid) is ignored, attr.st_size   *)
(* is me.size                                                               *)

setattr_step(S, t) ==
    LET me == S.th[t] IN
    CASE me.pc = "setattr_load" ->
            IF S.nodes_lock = Poisoned THEN {Panic(S, t)}
            ELSE IF ~TableReadable(S) THEN {}
            ELSE IF load(S, me.ino) = IndexOutOfBounds THEN {Panic(S, t)}
            ELSE IF load(S, me.ino) = 0 THEN {Reply(S, t, Err("NotFound"))}
            ELSE {[S EXCEPT !.th[t].h1 = load(S, me.ino), !.th[t].pc = "setattr_node"]}
      [] me.pc = "setattr_node" ->
            \* e.write(); match &node.inner
            LET n == S.heap[me.h1] IN
            IF IsPoisoned(n.lock) THEN {Panic(S, t)}
            ELSE IF ~CanWrite(n.lock) THEN WaitW(S, me.h1, t)
            ELSE IF n.kind = "Folder" THEN {Reply(S, t, get_entry(n))}
            ELSE {Goto(LockW(S, me.h1, t), t, "setattr_resize")}
      [] me.pc = "setattr_resize" ->
            \* file.data.write(); data.resize(target_size, 0); data.shrink_to_fit()
            LET n == S.heap[me.h1] IN
            IF IsPoisoned(n.dlock) THEN {Panic(S, t)}
            ELSE IF ~CanWrite(n.dlock) THEN WaitDataW(S, me.h1, t)
            ELSE {[S EXCEPT !.heap[me.h1].data = Resize(n.data, me.size),
                            !.heap[me.h1].committed = Resize(n.data, me.size),
                            !.th[t].pc = "setattr_size"]}
      [] me.pc = "setattr_size" ->
            \* node.get_entry()
            LET n == S.heap[me.h1] IN
            IF IsPoisoned(n.dlock) THEN {Panic(S, t)}
            ELSE IF ~CanRead(n.dlock) THEN {}
            ELSE {Reply(UnlockW(S, me.h1), t, get_entry(n))}
      [] OTHER -> {}

---------------------------------------------------------------------------
(* mkdir(parent, name) *)

mkdir_step(S, t) ==
    LET me == S.th[t] IN
    CASE me.pc = "mkdir_load" ->
            IF S.nodes_lock = Poisoned THEN {Panic(S, t)}
            ELSE IF ~TableReadable(S) THEN {}
            ELSE IF load(S, me.ino) = IndexOutOfBounds THEN {Panic(S, t)}
            ELSE IF load(S, me.ino) = 0 THEN {Reply(S, t, Err("NotFound"))}
            ELSE {[S EXCEPT !.th[t].h1 = load(S, me.ino), !.th[t].pc = "mkdir_parent"]}
      [] me.pc = "mkdir_parent" ->
            \* parent.write(); match &mut parent.inner
            LET p == S.heap[me.h1] IN
            IF IsPoisoned(p.lock) THEN {Panic(S, t)}
            ELSE IF ~CanWrite(p.lock) THEN WaitW(S, me.h1, t)
            ELSE IF p.kind = "File" THEN {Reply(S, t, Err("NotADirectory"))}
            ELSE {Goto(LockW(S, me.h1, t), t, "mkdir_alloc")}
      [] me.pc = "mkdir_alloc" ->
            \* self.next_inode(): the queue's pop_back
            LET popped == pop_back(S.reusable_inode_queue) IN
            IF S.queue_lock = Poisoned THEN {Panic(S, t)}
            ELSE IF ~QueueWritable(S) THEN {}
            ELSE IF popped[1] # 0
                 THEN {[S EXCEPT !.reusable_inode_queue = popped[2], !.last_removed = 0,
                                 !.th[t].x = popped[1], !.th[t].pc = "mkdir_install"]}
            ELSE {Goto(S, t, "mkdir_grow")}
      [] me.pc = "mkdir_grow" ->
            \* self.next_inode(): nodes.push(None); nodes.len()
            IF S.nodes_lock = Poisoned THEN {Panic(S, t)}
            ELSE IF ~TableWritable(S) THEN {}
            ELSE {[S EXCEPT !.nodes = Append(@, 0), !.last_removed = 0,
                            !.th[t].x = Len(S.nodes) + 1, !.th[t].pc = "mkdir_install"]}
      [] me.pc = "mkdir_install" ->
            \* nodes.write(); nodes[inode - 1] = Some(new_folder); entries.insert(name, inode)
            LET o == NewObj(S)
                S1 == [S EXCEPT !.heap[o] = new_folder(me.x), !.nodes[me.x] = o]
            IN IF S.nodes_lock = Poisoned THEN {Panic(S, t)}
               ELSE IF ~TableWritable(S) THEN {}
               ELSE IF me.name = BadName
                    THEN {[Panic(S1, t) EXCEPT !.nodes_lock = Poisoned]}
               ELSE {Reply(UnlockW(Insert(S1, me.h1, me.name, me.x), me.h1), t,
                           get_entry(new_folder(me.x)))}
      [] OTHER -> {}

---------------------------------------------------------------------------
(* rmdir(parent, name) *)

rmdir_step(S, t) ==
    LET me == S.th[t] IN
    CASE me.pc = "rmdir_load" ->
            IF S.nodes_lock = Poisoned THEN {Panic(S, t)}
            ELSE IF ~TableReadable(S) THEN {}
            ELSE IF load(S, me.ino) = IndexOutOfBounds THEN {Panic(S, t)}
            ELSE IF load(S, me.ino) = 0 THEN {Reply(S, t, Err("NotFound"))}
            ELSE {[S EXCEPT !.th[t].h1 = load(S, me.ino), !.th[t].pc = "rmdir_parent"]}
      [] me.pc = "rmdir_parent" ->
            \* parent.write(); folder.entries.remove(name); drop(parent)
            LET p == S.heap[me.h1] IN
            IF IsPoisoned(p.lock) THEN {Panic(S, t)}
            ELSE IF ~CanWrite(p.lock) THEN WaitW(S, me.h1, t)
            ELSE IF p.kind = "File" THEN {Reply(S, t, Err("NotADirectory"))}
            ELSE IF me.name = BadName THEN {Panic(LockW(S, me.h1, t), t)}
            ELSE IF p.entries[me.name] = 0
                 THEN {Reply(Remove(S, me.h1, me.name), t, Err("NotFound"))}
            ELSE {[Remove(S, me.h1, me.name) EXCEPT !.th[t].x = p.entries[me.name],
                                                    !.th[t].pc = "rmdir_clear"]}
      [] me.pc = "rmdir_clear" ->
            \* nodes.write(); nodes[inode - 1] = None
            IF S.nodes_lock = Poisoned THEN {Panic(S, t)}
            ELSE IF ~TableWritable(S) THEN {}
            ELSE {[S EXCEPT !.nodes[me.x] = 0, !.nodes_lock = t, !.th[t].pc = "rmdir_enqueue"]}
      [] me.pc = "rmdir_enqueue" ->
            \* queue.write(); queue.push_back(inode), still under the table's write lock
            IF S.queue_lock = Poisoned THEN {Panic(S, t)}
            ELSE IF ~QueueWritable(S) THEN {}
            ELSE {Reply([S EXCEPT !.reusable_inode_queue = push_back(@, me.x),
                                  !.nodes_lock = 0, !.last_removed = me.x], t,
                        [NoRet EXCEPT !.kind = "Ok"])}
      [] OTHER -> {}

---------------------------------------------------------------------------
(* mknod(inode, name) *)

mknod_step(S, t) ==
    LET me == S.th[t] IN
    CASE me.pc = "mknod_load" ->
            IF S.nodes_lock = Poisoned THEN {Panic(S, t)}
            ELSE IF ~TableReadable(S) THEN {}
            ELSE IF load(S, me.ino) = IndexOutOfBounds THEN {Panic(S, t)}
            ELSE IF load(S, me.ino) = 0 THEN {Reply(S, t, Err("NotFound"))}
            ELSE {[S EXCEPT !.th[t].h1 = load(S, me.ino), !.th[t].pc = "mknod_parent"]}
      [] me.pc = "mknod_parent" ->
            \* parent.write(); match &mut parent.inner
            LET p == S.heap[me.h1] IN
            IF IsPoisoned(p.lock) THEN {Panic(S, t)}
            ELSE IF ~CanWrite(p.lock) THEN WaitW(S, me.h1, t)
            ELSE IF p.kind = "File" THEN {Reply(S, t, Err("NotADirectory"))}
            ELSE {Goto(LockW(S, me.h1, t), t, "mknod_alloc")}
      [] me.pc = "mknod_alloc" ->
            \* self.next_inode(): the queue's pop_back; on Some: entries.insert; drop(parent)
            LET popped == pop_back(S.reusable_inode_queue)
                S1 == [S EXCEPT !.reusable_inode_queue = popped[2], !.last_removed = 0,
                                !.th[t].x = popped[1], !.th[t].pc = "mknod_install"]
            IN IF S.queue_lock = Poisoned THEN {Panic(S, t)}
               ELSE IF ~QueueWritable(S) THEN {}
               ELSE IF popped[1] # 0
                    THEN {IF me.name = BadName THEN Panic(S1, t)
                          ELSE UnlockW(Insert(S1, me.h1, me.name, popped[1]), me.h1)}
               ELSE {Goto(S, t, "mknod_grow")}
      [] me.pc = "mknod_grow" ->
            \* self.next_inode(): nodes.push(None); nodes.len(); entries.insert; drop(parent)
            LET S1 == [S EXCEPT !.nodes = Append(@, 0), !.last_removed = 0,
                                !.th[t].x = Len(S.nodes) + 1, !.th[t].pc = "mknod_install"]
            IN IF S.nodes_lock = Poisoned THEN {Panic(S, t)}
               ELSE IF ~TableWritable(S) THEN {}
               ELSE IF me.name = BadName THEN {Panic(S1, t)}
               ELSE {UnlockW(Insert(S1, me.h1, me.name, Len(S.nodes) + 1), me.h1)}
      [] me.pc = "mknod_install" ->
            \* nodes.write(); nodes[new_inode - 1] = Some(new_file)
            LET o == NewObj(S) IN
            IF S.nodes_lock = Poisoned THEN {Panic(S, t)}
            ELSE IF ~TableWritable(S) THEN {}
            ELSE {Reply([S EXCEPT !.heap[o] = new_file(me.x), !.nodes[me.x] = o], t,
                        get_entry(new_file(me.x)))}
      [] OTHER -> {}

---------------------------------------------------------------------------
(* unlink(parent, name) *)

unlink_step(S, t) ==
    LET me == S.th[t] IN
    CASE me.pc = "unlink_load" ->
            IF S.nodes_lock = Poisoned THEN {Panic(S, t)}
            ELSE IF ~TableReadable(S) THEN {}
            ELSE IF load(S, me.ino) = IndexOutOfBounds THEN {Panic(S, t)}
            ELSE IF load(S, me.ino) = 0 THEN {Reply(S, t, Err("NotFound"))}
            ELSE {[S EXCEPT !.th[t].h1 = load(S, me.ino), !.th[t].pc = "unlink_parent"]}
      [] me.pc = "unlink_parent" ->
            \* parent.write(); folder.entries.remove(name); drop(parent)
            LET p == S.heap[me.h1] IN
            IF IsPoisoned(p.lock) THEN {Panic(S, t)}
            ELSE IF ~CanWrite(p.lock) THEN WaitW(S, me.h1, t)
            ELSE IF p.kind = "File" THEN {Reply(S, t, Err("NotADirectory"))}
            ELSE IF me.name = BadName THEN {Panic(LockW(S, me.h1, t), t)}
            ELSE IF p.entries[me.name] = 0
                 THEN {Reply(Remove(S, me.h1, me.name), t, Err("NotFound"))}
            ELSE {[Remove(S, me.h1, me.name) EXCEPT !.th[t].x = p.entries[me.name],
                                                    !.th[t].pc = "unlink_clear"]}
      [] me.pc = "unlink_clear" ->
            \* nodes.write(); nodes[inode - 1] = None
            IF S.nodes_lock = Poisoned THEN {Panic(S, t)}
            ELSE IF ~TableWritable(S) THEN {}
            ELSE {[S EXCEPT !.nodes[me.x] = 0, !.nodes_lock = t, !.th[t].pc = "unlink_enqueue"]}
      [] me.pc = "unlink_enqueue" ->
            \* queue.write(); queue.push_back(inode), still under the table's write lock
            IF S.queue_lock = Poisoned THEN {Panic(S, t)}
            ELSE IF ~QueueWritable(S) THEN {}
            ELSE {Reply([S EXCEPT !.reusable_inode_queue = push_back(@, me.x),
                                  !.nodes_lock = 0, !.last_removed = me.x], t,
                        [NoRet EXCEPT !.kind = "Ok"])}
      [] OTHER -> {}

---------------------------------------------------------------------------
(* rename(olddir, oldname, newdir, newname): olddir is me.ino, newdir me.ino2 *)

\* rename that links the target name to a newly numbered inode instead of the
\* moved one.
rename_renumber(S, old, oldname, new, newname) ==
    Insert(Remove(S, old, oldname), new, newname, Len(S.nodes))

\* if let Some(inode) = old.entries.remove(oldname) { new.entries.insert(newname, inode) }
\* on the folder objects old and new (the same object when olddir == newdir).
rename_move(S, old, oldname, new, newname) ==
    Insert(Remove(S, old, oldname), new, newname, S.heap[old].entries[oldname])

rename_step(S, t) ==
    LET me == S.th[t] IN
    CASE me.pc = "rename_load" ->
            IF S.nodes_lock = Poisoned THEN {Panic(S, t)}
            ELSE IF ~TableReadable(S) THEN {}
            ELSE IF load(S, me.ino) = IndexOutOfBounds THEN {Panic(S, t)}
            ELSE IF load(S, me.ino) = 0 THEN {Reply(S, t, Err("NotFound"))}
            ELSE {[S EXCEPT !.th[t].h1 = load(S, me.ino), !.th[t].pc = "rename_old"]}
      [] me.pc = "rename_old" ->
            \* old_dir_node.write(); the olddir == newdir branch
            LET old == S.heap[me.h1] IN
            IF IsPoisoned(old.lock) THEN {Panic(S, t)}
            ELSE IF ~CanWrite(old.lock) THEN WaitW(S, me.h1, t)
            ELSE IF me.ino # me.ino2 THEN {Goto(LockW(S, me.h1, t), t, "rename_new_load")}
            ELSE IF old.kind # "Folder" THEN {Reply(S, t, Err("NotADirectory"))}
            ELSE IF me.name = BadName THEN {Panic(LockW(S, me.h1, t), t)}
            ELSE IF old.entries[me.name] = 0
                 THEN {Reply(Remove(S, me.h1, me.name), t, Err("NotFound"))}
            ELSE IF me.name2 = BadName
                 THEN {Panic(LockW(Remove(S, me.h1, me.name), me.h1, t), t)}
            ELSE {Reply(rename_move(S, me.h1, me.name, me.h1, me.name2), t,
                        [NoRet EXCEPT !.kind = "Ok"])}
      [] me.pc = "rename_new_load" ->
            \* self.load(newdir)?
            IF S.nodes_lock = Poisoned THEN {Panic(S, t)}
            ELSE IF ~TableReadable(S) THEN {}
            ELSE IF load(S, me.ino2) = IndexOutOfBounds THEN {Panic(S, t)}
            ELSE IF load(S, me.ino2) = 0
                 THEN {Reply(UnlockW(S, me.h1), t, Err("NotFound"))}
            ELSE {[S EXCEPT !.th[t].h2 = load(S, me.ino2), !.th[t].pc = "rename_new"]}
      [] me.pc = "rename_new" ->
            \* new_dir_node.write(); match (&mut old.inner, &mut new.inner)
            LET old == S.heap[me.h1]
                new == S.heap[me.h2]
            IN IF IsPoisoned(new.lock) THEN {Panic(S, t)}
               ELSE IF ~CanWrite(new.lock) THEN WaitW(S, me.h2, t)
               ELSE IF old.kind # "Folder" \/ new.kind # "Folder"
                    THEN {Reply(UnlockW(S, me.h1), t, Err("NotADirectory"))}
               ELSE IF me.name = BadName THEN {Panic(LockW(S, me.h2, t), t)}
               ELSE IF old.entries[me.name] = 0
                    THEN {Reply(UnlockW(Remove(S, me.h1, me.name), me.h1), t, Err("NotFound"))}
               ELSE IF me.name2 = BadName
                    THEN {Panic(LockW(Remove(S, me.h1, me.name), me.h2, t), t)}
               ELSE {Reply(UnlockW(rename_move(S, me.h1, me.name, me.h2, me.name2), me.h1),
                           t, [NoRet EXCEPT !.kind = "Ok"])}
      [] OTHER -> {}

---------------------------------------------------------------------------
(* readdir(inode, size, offset, add_entry): the entries handed to add_entry *)
(* are collected in the reply's list.                                       *)

DirEntry(ino, offset, type, name) ==
    [ino |-> ino, offset |-> offset, type |-> type, name |-> name]

readdir_step(S, t) ==
    LET me == S.th[t] IN
    CASE me.pc = "readdir_load" ->
            IF S.nodes_lock = Poisoned THEN {Panic(S, t)}
            ELSE IF ~TableReadable(S) THEN {}
            ELSE IF load(S, me.ino) = IndexOutOfBounds THEN {Panic(S, t)}
            ELSE IF load(S, me.ino) = 0 THEN {Reply(S, t, Err("NotFound"))}
            ELSE {[S EXCEPT !.th[t].h1 = load(S, me.ino), !.th[t].pc = "readdir_node"]}
      [] me.pc = "readdir_node" ->
            \* node.read(); folder.entries.iter().skip(offset).take(size).enumerate()
            LET n == S.heap[me.h1]
                todo == SkipTake(EntriesIter(n), me.off, me.size)
            IN IF IsPoisoned(n.lock) THEN {Panic(S, t)}
               ELSE IF ~CanRead(n.lock) THEN {}
               ELSE IF n.kind # "Folder" THEN {Reply(S, t, Err("NotFound"))}
               ELSE IF todo = <<>> THEN {Reply(S, t, [NoRet EXCEPT !.kind = "Ok"])}
               ELSE {[LockR(S, me.h1, t) EXCEPT !.th[t].todo = todo, !.th[t].i = 0,
                                                !.th[t].pc = "readdir_child_load"]}
      [] me.pc = "readdir_child_load" ->
            \* self.load(*child_inode)?
            LET child == S.heap[me.h1].entries[Head(me.todo)] IN
            IF S.nodes_lock = Poisoned THEN {Panic(S, t)}
            ELSE IF ~TableReadable(S) THEN {}
            ELSE IF load(S, child) = 0
                 THEN {Reply(UnlockR(S, me.h1, t), t,
                             [NoRet EXCEPT !.kind = "NotFound", !.list = me.ret.list])}
            ELSE {[S EXCEPT !.th[t].h2 = load(S, child), !.th[t].pc = "readdir_child"]}
      [] me.pc = "readdir_child" ->
            \* child_node.read().inner; add_entry(DirEntry { offset: i + 1, .. })
            LET c == S.heap[me.h2]
                name == Head(me.todo)
                list == Append(me.ret.list,
                               DirEntry(S.heap[me.h1].entries[name], me.i + 1, c.kind, name))
            IN IF IsPoisoned(c.lock) THEN {Panic(S, t)}
               ELSE IF ~CanRead(c.lock) THEN {}
               ELSE IF Len(me.todo) = 1
                    THEN {Reply(UnlockR(S, me.h1, t), t,
                                [NoRet EXCEPT !.kind = "Ok", !.list = list])}
               ELSE {[S EXCEPT !.th[t].todo = Tail(me.todo), !.th[t].i = me.i + 1,
                               !.th[t].h2 = 0, !.th[t].ret.list = list,
                               !.th[t].pc = "readdir_child_load"]}
      [] OTHER -> {}

---------------------------------------------------------------------------
(* open(inode) *)

open_step(S, t) ==
    LET me == S.th[t] IN
    CASE me.pc = "open_load" ->
            IF S.nodes_lock = Poisoned THEN {Panic(S, t)}
            ELSE IF ~TableReadable(S) THEN {}
            ELSE IF load(S, me.ino) = IndexOutOfBounds THEN {Panic(S, t)}
            ELSE IF load(S, me.ino) = 0 THEN {Reply(S, t, Err("NotFound"))}
            ELSE {Reply(S, t, [NoRet EXCEPT !.kind = "Ok"])}
      [] OTHER -> {}

---------------------------------------------------------------------------
(* read(inode, size, offset): the bytes given to the writer are the reply's *)
(* bytes, their count its size.                                             *)

\* file.data.read() can be taken.
\* A read that does not wait for the data lock.
read_data_unlocked(obj) == TRUE

\* file.data.read() can be taken
read_data_lock(obj) == CanRead(obj.dlock)

read_step(S, t) ==
    LET me == S.th[t] IN
    CASE me.pc = "read_load" ->
            IF S.nodes_lock = Poisoned THEN {Panic(S, t)}
            ELSE IF ~TableReadable(S) THEN {}
            ELSE IF load(S, me.ino) = IndexOutOfBounds THEN {Panic(S, t)}
            ELSE IF load(S, me.ino) = 0 THEN {Reply(S, t, Err("NotFound"))}
            ELSE {[S EXCEPT !.th[t].h1 = load(S, me.ino), !.th[t].pc = "read_node"]}
      [] me.pc = "read_node" ->
            \* node.read(); match &node1.inner
            LET n == S.heap[me.h1] IN
            IF IsPoisoned(n.lock) THEN {Panic(S, t)}
            ELSE IF ~CanRead(n.lock) THEN {}
            ELSE IF n.kind # "File" THEN {Reply(S, t, Err("NotFound"))}
            ELSE {Goto(LockR(S, me.h1, t), t, "read_data")}
      [] me.pc = "read_data" ->
            \* file.data.read(); w.write_all(&data[range]); Ok(range.count())
            LET n == S.heap[me.h1]
                bytes == ReadRange(n.data, me.off, me.size)
            IN IF IsPoisoned(n.dlock) THEN {Panic(S, t)}
               ELSE IF ~read_data_lock(n) THEN {}
               ELSE {Reply([UnlockR(S, me.h1, t) EXCEPT !.th[t].snap = n.committed], t,
                           [NoRet EXCEPT !.kind = "Ok", !.bytes = bytes, !.size = Len(bytes)])}
      [] OTHER -> {}

---------------------------------------------------------------------------
(* write(inode, r, size, offset): r holds me.buf.  The splice drains the    *)
(* range first (Vec::drain sets the vector's length to range.start) and     *)
(* then fills in the buffer and moves the tail back.                        *)

write_step(S, t) ==
    LET me == S.th[t] IN
    CASE me.pc = "write_load" ->
            IF S.nodes_lock = Poisoned THEN {Panic(S, t)}
            ELSE IF ~TableReadable(S) THEN {}
            ELSE IF load(S, me.ino) = IndexOutOfBounds THEN {Panic(S, t)}
            ELSE IF load(S, me.ino) = 0 THEN {Reply(S, t, Err("NotFound"))}
            ELSE {[S EXCEPT !.th[t].h1 = load(S, me.ino), !.th[t].pc = "write_node"]}
      [] me.pc = "write_node" ->
            \* node.read(); match &node1.inner
            LET n == S.heap[me.h1] IN
            IF IsPoisoned(n.lock) THEN {Panic(S, t)}
            ELSE IF ~CanRead(n.lock) THEN {}
            ELSE IF n.kind # "File" THEN {Reply(S, t, Err("NotFound"))}
            ELSE {Goto(LockR(S, me.h1, t), t, "write_data")}
      [] me.pc = "write_data" ->
            \* file.data.write(); r.read_to_end(&mut buf); the size check; the
            \* clamped range; the splice's drain
            LET n == S.heap[me.h1]
                range == WriteRange(Len(n.data), me.off, Len(me.buf))
            IN IF IsPoisoned(n.dlock) THEN {Panic(S, t)}
               ELSE IF ~CanWrite(n.dlock) THEN WaitDataW(S, me.h1, t)
               ELSE IF Len(me.buf) # me.size
                    THEN {Reply(UnlockR(S, me.h1, t), t, Err("InvalidInput"))}
               ELSE {[S EXCEPT !.heap[me.h1].dlock = AcqWrite(@, t),
                               !.heap[me.h1].data = Drained(n.data, range),
                               !.th[t].tail = DrainTail(n.data, range),
                               !.th[t].pc = "write_splice"]}
      [] me.pc = "write_splice" ->
            \* the splice completes; Ok(buf_size)
            LET data == SpliceFill(S.heap[me.h1].data, me.buf, me.tail)
            IN {Reply([UnlockR(S, me.h1, t) EXCEPT !.heap[me.h1].dlock = RelWrite(@),
                                                  !.heap[me.h1].data = data,
                                                  !.heap[me.h1].committed = data], t,
                      [NoRet EXCEPT !.kind = "Ok", !.size = Len(me.buf)])}
      [] OTHER -> {}

---------------------------------------------------------------------------
(* Requests *)

Request(op, ino, name, ino2, name2, size, off, buf) ==
    [IdleThread EXCEPT !.pc = op, !.op = op, !.ino = ino, !.name = name, !.ino2 = ino2,
                       !.name2 = name2, !.size = size, !.off = off, !.buf = buf]

\* The fields a setattr request may mark as valid (SetattrValid), and a setattr
\* request with its mask.
SetattrValid == {"MODE", "SIZE"}
SetattrRequest(inode, st_size, valid) ==
    [Request("setattr", inode, 0, 0, 0, st_size, 0, <<>>) EXCEPT !.valid = valid]

\* The transport hands a decoded request to worker t, which enters the handler.
Start(S, t, req, entry) == [S EXCEPT !.th[t] = [req EXCEPT !.pc = entry]]

\* One step of the handler thread t is in.
Step(S, t) ==
    LET op == S.th[t].op
        pc == S.th[t].pc
        next == CASE op = "lookup" -> lookup_step(S, t)
                  [] op = "getattr" -> getattr_step(S, t)
                  [] op = "setattr" -> setattr_step(S, t)
                  [] op = "mkdir" -> mkdir_step(S, t)
                  [] op = "rmdir" -> rmdir_step(S, t)
                  [] op = "readdir" -> readdir_step(S, t)
                  [] op = "mknod" -> mknod_step(S, t)
                  [] op = "unlink" -> unlink_step(S, t)
                  [] op = "rename" -> rename_step(S, t)
                  [] op = "open" -> open_step(S, t)
                  [] op = "read" -> read_step(S, t)
                  [] op = "write" -> write_step(S, t)
                  [] OTHER -> {}
        \* a worker that has moved on is parked in no write()
        settled(n) ==
            IF n.th[t].pc = pc THEN n
            ELSE [n EXCEPT !.heap = [o \in ObjIds |->
                                        [n.heap[o] EXCEPT !.lock = Unpark(@, t),
                                                          !.dlock = Unpark(@, t)]]]
    IN {Collect(settled(n)) : n \in next}

RECURSIVE Run(_, _)
\* The handler run to its reply (or to the lock it cannot get).
Run(S, t) ==
    IF S.th[t].pc = "done" \/ Step(S, t) = {} THEN S
    ELSE Run(CHOOSE n \in Step(S, t) : TRUE, t)

\* Worker t runs the whole handler for a request.
Serve(t, req, entry) == Become(Run(Start(Cur, t, req, entry), t))

\* Worker t enters the handler for a request.
Enter(t, req, entry) == Become(Start(Cur, t, req, entry))

\* Worker t takes its next step in the handler named op.
Advance(t, op) ==
    /\ th[t].op = op
    /\ th[t].pc \notin {"idle", "done"}
    /\ \E n \in Step(Cur, t) : Become(n)

---------------------------------------------------------------------------
(* Inputs *)

Mounted == Len(nodes) > 0
Quiet == \A t \in Threads : th[t].pc = "idle"
Free(t) == th[t].pc = "idle"
ValidInodes == 1..Len(nodes)
Sizes == 0..ContentCap
Offsets == 0..ContentCap
ReadSizes == 0..MaxBuf
DirSizes == 1..MaxNames
DirOffsets == 0..MaxNames

Creating == {t \in Threads : th[t].op \in {"mkdir", "mknod"} /\ th[t].pc # "done"}
\* The slot vector is kept within MaxSlots.
Room == Len(nodes) - Len(reusable_inode_queue) + Cardinality(Creating) < MaxSlots
\* The bytes of the writes to ino that workers t.. have in flight.
RECURSIVE Pending(_, _)
Pending(ino, t) ==
    IF t > NThreads THEN 0
    ELSE (IF th[t].op = "write" /\ th[t].ino = ino /\ th[t].pc \notin {"idle", "done"}
          THEN Len(th[t].buf) ELSE 0) + Pending(ino, t + 1)
\* File contents are kept within ContentCap.
Fits(ino, buf) ==
    IF ino \notin 1..Len(nodes) THEN TRUE
    ELSE IF nodes[ino] = 0 THEN TRUE
    ELSE Len(heap[nodes[ino]].data) + Pending(ino, 1) + Len(buf) <= ContentCap
\* The buffers worker t writes in the concurrent runs: filled with its own byte.
OwnBufs(t) == {[i \in 1..n |-> t] : n \in 1..MaxBuf}

---------------------------------------------------------------------------
(* Construction and init *)

\* MyFileSystem::new
New ==
    [nodes |-> <<>>, reusable_inode_queue |-> <<>>, heap |-> [o \in ObjIds |-> FreeObj],
     nodes_lock |-> 0, queue_lock |-> 0, th |-> [t \in Threads |-> IdleThread],
     last_removed |-> 0]

Is(S) ==
    /\ nodes = S.nodes
    /\ reusable_inode_queue = S.reusable_inode_queue
    /\ heap = S.heap
    /\ nodes_lock = S.nodes_lock
    /\ queue_lock = S.queue_lock
    /\ th = S.th
    /\ last_removed = S.last_removed
    /\ transport = "open"
    /\ session = "get_request"

Init == Is(New)

\* init: nodes.push(Some(root_node)), the root in the first object
init_step(S) == [S EXCEPT !.nodes = Append(@, 1), !.heap[1] = new_folder(1)]

init == ~Mounted /\ Become(init_step(Cur))

\* The reply of worker t is sent.
Return(t) ==
    /\ th[t].pc = "done"
    /\ th' = [th EXCEPT ![t] = IdleThread]
    /\ UNCHANGED <<nodes, reusable_inode_queue, heap, nodes_lock, queue_lock, last_removed,
                   transport, session>>

---------------------------------------------------------------------------
(* The handlers, each run as a whole (one request at a time) *)

lookup(parent, name) ==
    Mounted /\ Quiet /\ Serve(1, Request("lookup", parent, name, 0, 0, 0, 0, <<>>), "lookup_load")

getattr(inode) ==
    Mounted /\ Quiet /\ Serve(1, Request("getattr", inode, 0, 0, 0, 0, 0, <<>>), "getattr_load")

setattr(inode, st_size, valid) ==
    Mounted /\ Quiet
    /\ Serve(1, SetattrRequest(inode, st_size, valid), "setattr_load")

mkdir(parent, name) ==
    Mounted /\ Quiet /\ Room
    /\ Serve(1, Request("mkdir", parent, name, 0, 0, 0, 0, <<>>), "mkdir_load")

rmdir(parent, name) ==
    Mounted /\ Quiet /\ Serve(1, Request("rmdir", parent, name, 0, 0, 0, 0, <<>>), "rmdir_load")

readdir(inode, size, offset) ==
    Mounted /\ Quiet
    /\ Serve(1, Request("readdir", inode, 0, 0, 0, size, offset, <<>>), "readdir_load")

mknod(inode, name) ==
    Mounted /\ Quiet /\ Room
    /\ Serve(1, Request("mknod", inode, name, 0, 0, 0, 0, <<>>), "mknod_load")

unlink(parent, name) ==
    Mounted /\ Quiet /\ Serve(1, Request("unlink", parent, name, 0, 0, 0, 0, <<>>), "unlink_load")

rename(olddir, oldname, newdir, newname) ==
    Mounted /\ Quiet
    /\ Serve(1, Request("rename", olddir, oldname, newdir, newname, 0, 0, <<>>), "rename_load")

open(inode) ==
    Mounted /\ Quiet /\ Serve(1, Request("open", inode, 0, 0, 0, 0, 0, <<>>), "open_load")

read(inode, size, offset) ==
    Mounted /\ Quiet
    /\ Serve(1, Request("read", inode, 0, 0, 0, size, offset, <<>>), "read_load")

write(inode, buf, size, offset) ==
    Mounted /\ Quiet /\ Fits(inode, buf)
    /\ Serve(1, Request("write", inode, 0, 0, 0, size, offset, buf), "write_load")

\* Requests of every kind, one at a time.  File contents are built here from
\* one-byte writes at offset 0, whose size parameter may differ from the
\* buffer's length, and read back whole; SpecIO covers the ranges.
Next ==
    \/ init
    \/ Return(1)
    \/ \E p \in ValidInodes, n \in Names : lookup(p, n)
    \/ \E i \in ValidInodes : getattr(i)
    \/ \E p \in ValidInodes, n \in Names : mkdir(p, n)
    \/ \E p \in ValidInodes, n \in Names : rmdir(p, n)
    \/ \E i \in ValidInodes, z \in DirSizes, o \in DirOffsets : readdir(i, z, o)
    \/ \E p \in ValidInodes, n \in Names : mknod(p, n)
    \/ \E p \in ValidInodes, n \in Names : unlink(p, n)
    \/ \E p \in ValidInodes, n \in Names, q \in ValidInodes, m \in Names : rename(p, n, q, m)
    \/ \E i \in ValidInodes : open(i)
    \/ \E i \in ValidInodes : read(i, MaxBuf, 0)
    \/ \E i \in ValidInodes, b \in {c \in Bufs : Len(c) = 1}, z \in 1..MaxBuf : write(i, b, z, 0)

Spec == Init /\ [][Next]_vars

\* File requests over all ranges, one at a time, on the files mknod creates.
NextIO ==
    \/ init
    \/ Return(1)
    \/ \E p \in ValidInodes, n \in Names : mknod(p, n)
    \/ \E i \in ValidInodes : getattr(i)
    \/ \E i \in ValidInodes, z \in Sizes : setattr(i, z, {"SIZE"})
    \/ \E i \in ValidInodes, z \in ReadSizes, o \in Offsets : read(i, z, o)
    \/ \E i \in ValidInodes, b \in Bufs, o \in Offsets : write(i, b, Len(b), o)

SpecIO == Init /\ [][NextIO]_vars

---------------------------------------------------------------------------
(* Serving a request in a given state *)

\* The reply worker 1 would give to a request in state S.
Ask(S, req, entry) == Run(Start(S, 1, req, entry), 1).th[1].ret
AskLookup(S, parent, name) ==
    Ask(S, Request("lookup", parent, name, 0, 0, 0, 0, <<>>), "lookup_load")
AskRead(S, inode, size, offset) ==
    Ask(S, Request("read", inode, 0, 0, 0, size, offset, <<>>), "read_load")
AskGetattr(S, inode) ==
    Ask(S, Request("getattr", inode, 0, 0, 0, 0, 0, <<>>), "getattr_load")
\* The state after worker 1 has served a request in state S.
After(S, req, entry) == Run(Start(S, 1, req, entry), 1)

---------------------------------------------------------------------------
(* The handlers step by step, on concurrent workers *)

lookup_begin(t, parent, name) ==
    Mounted /\ Free(t) /\ Enter(t, Request("lookup", parent, name, 0, 0, 0, 0, <<>>), "lookup_load")
lookup_next(t) == Advance(t, "lookup")

getattr_begin(t, inode) ==
    Mounted /\ Free(t) /\ Enter(t, Request("getattr", inode, 0, 0, 0, 0, 0, <<>>), "getattr_load")
getattr_next(t) == Advance(t, "getattr")

setattr_begin(t, inode, st_size, valid) ==
    Mounted /\ Free(t)
    /\ Enter(t, SetattrRequest(inode, st_size, valid), "setattr_load")
setattr_next(t) == Advance(t, "setattr")

mkdir_begin(t, parent, name) ==
    Mounted /\ Free(t) /\ Room
    /\ Enter(t, Request("mkdir", parent, name, 0, 0, 0, 0, <<>>), "mkdir_load")
mkdir_next(t) == Advance(t, "mkdir")

rmdir_begin(t, parent, name) ==
    Mounted /\ Free(t) /\ Enter(t, Request("rmdir", parent, name, 0, 0, 0, 0, <<>>), "rmdir_load")
rmdir_next(t) == Advance(t, "rmdir")

readdir_begin(t, inode, size, offset) ==
    Mounted /\ Free(t)
    /\ Enter(t, Request("readdir", inode, 0, 0, 0, size, offset, <<>>), "readdir_load")
readdir_next(t) == Advance(t, "readdir")

mknod_begin(t, inode, name) ==
    Mounted /\ Free(t) /\ Room
    /\ Enter(t, Request("mknod", inode, name, 0, 0, 0, 0, <<>>), "mknod_load")
mknod_next(t) == Advance(t, "mknod")

unlink_begin(t, parent, name) ==
    Mounted /\ Free(t) /\ Enter(t, Request("unlink", parent, name, 0, 0, 0, 0, <<>>), "unlink_load")
unlink_next(t) == Advance(t, "unlink")

read_begin(t, inode, size, offset) ==
    Mounted /\ Free(t)
    /\ Enter(t, Request("read", inode, 0, 0, 0, size, offset, <<>>), "read_load")
read_next(t) == Advance(t, "read")

write_begin(t, inode, buf, size, offset) ==
    Mounted /\ Free(t) /\ Fits(inode, buf)
    /\ Enter(t, Request("write", inode, 0, 0, 0, size, offset, buf), "write_load")
write_next(t) == Advance(t, "write")

\* Creations, lookups and whole-directory listings on concurrent workers.
NextDirConc ==
    \/ init
    \/ \E t \in Threads :
        \/ Return(t)
        \/ \E p \in ValidInodes, n \in Names : lookup_begin(t, p, n)
        \/ lookup_next(t)
        \/ \E p \in ValidInodes, n \in Names : mkdir_begin(t, p, n)
        \/ mkdir_next(t)
        \/ \E i \in ValidInodes : readdir_begin(t, i, MaxNames, 0)
        \/ readdir_next(t)
        \/ \E p \in ValidInodes, n \in Names : mknod_begin(t, p, n)
        \/ mknod_next(t)

SpecDirConc == Init /\ [][NextDirConc]_vars

\* The store after init, mknod(1, name 1) and mknod(1, name 2) have been served.
TwoFiles ==
    LET mounted == init_step(New)
        one == After(mounted, Request("mknod", 1, 1, 0, 0, 0, 0, <<>>), "mknod_load")
        two == After([one EXCEPT !.th[1] = IdleThread],
                     Request("mknod", 1, 2, 0, 0, 0, 0, <<>>), "mknod_load")
    IN [two EXCEPT !.th[1] = IdleThread]

InitIO == Is(TwoFiles)

\* Reads and writes on concurrent workers, on two files.
NextIOConc ==
    \E t \in Threads :
        \/ Return(t)
        \/ \E i \in ValidInodes, o \in 0..1 : read_begin(t, i, MaxBuf, o)
        \/ read_next(t)
        \/ \E i \in ValidInodes, b \in OwnBufs(t), o \in 0..1 : write_begin(t, i, b, Len(b), o)
        \/ write_next(t)

SpecIOConc == InitIO /\ [][NextIOConc]_vars

---------------------------------------------------------------------------
(* Vocabulary of the properties *)

\* This step is worker 1 serving a whole request of kind op.
Served(op) == th[1].pc = "idle" /\ th'[1].pc = "done" /\ th'[1].op = op

\* The live slots: inodes whose slot holds a node.
Live == {i \in 1..Len(nodes) : nodes[i] # 0}
LiveDirs == {i \in Live : heap[nodes[i]].kind = "Folder"}
LiveFiles == {i \in Live : heap[nodes[i]].kind = "File"}
NodeOf(i) == heap[nodes[i]]

\* The entries of live directories that refer to inode i, as <<directory, name>>.
ParentEntries(i) == {<<d, n>> \in LiveDirs \X Names : NodeOf(d).entries[n] = i}

RECURSIVE ReachFrom(_)
\* The inodes reachable from the set R through entries of live directories.
ReachFrom(R) ==
    LET more == R \cup {NodeOf(d).entries[n] : <<d, n>> \in (R \cap LiveDirs) \X Names}
        next == more \ {0}
    IN IF next = R THEN R ELSE ReachFrom(next)

---------------------------------------------------------------------------
(* C2: after completed mkdir, mknod, rmdir, unlink and rename requests,     *)
(* every live slot other than inode 1 is reachable from the root through    *)
(* exactly one directory entry.                                             *)

C2_Tree ==
    \A i \in Live \ {1} :
        /\ Cardinality(ParentEntries(i)) = 1
        /\ i \in ReachFrom({1})

---------------------------------------------------------------------------
(* C10: rmdir(parent, name) on a directory that has at least one entry      *)
(* fails with NotEmpty and leaves the parent entry, the child's slot and    *)
(* the free queue unchanged.                                                *)

RmdirOfNonEmpty ==
    /\ Served("rmdir")
    /\ th'[1].ino \in LiveDirs
    /\ LET child == NodeOf(th'[1].ino).entries[th'[1].name]
       IN child \in LiveDirs /\ EntryCount(NodeOf(child)) > 0

C10_RmdirNotEmpty ==
    [][RmdirOfNonEmpty =>
          /\ th'[1].ret.kind = "NotEmpty"
          /\ nodes' = nodes
          /\ reusable_inode_queue' = reusable_inode_queue
          /\ heap' = heap]_vars

---------------------------------------------------------------------------
(* C9: every file's content length is at most MAX_FILE_SIZE, whatever       *)
(* writes and truncations have been applied, and a write that would exceed  *)
(* the limit reports fewer bytes accepted than requested.                   *)

C9_ContentBounded ==
    /\ \A i \in LiveFiles : Len(NodeOf(i).data) <= MAX_FILE_SIZE
    /\ \A t \in Threads :
          (/\ th[t].pc = "done" /\ th[t].op = "write" /\ th[t].ret.kind = "Ok"
           /\ th[t].off + Len(th[t].buf) > MAX_FILE_SIZE)
             => th[t].ret.size < Len(th[t].buf)

---------------------------------------------------------------------------
(* C3: for any file, bytes B and offset O with O + |B| <= MAX_FILE_SIZE,    *)
(* write(ino, B, O) followed by read(ino, |B|, O) returns exactly B.        *)

WroteWithinLimit ==
    /\ Served("write")
    /\ th'[1].ret.kind = "Ok"
    /\ th'[1].off + Len(th'[1].buf) <= MAX_FILE_SIZE

C3_WriteReadRoundTrip ==
    [][WroteWithinLimit =>
          AskRead(Cur', th'[1].ino, Len(th'[1].buf), th'[1].off).bytes = th'[1].buf]_vars

---------------------------------------------------------------------------
(* C5: after a successful rename(olddir, oldname, newdir, newname), within  *)
(* one directory or across two, lookup(newdir, newname) resolves to the     *)
(* inode lookup(olddir, oldname) resolved to before; no inode is allocated  *)
(* and the content read from that inode is unchanged.                       *)

Renamed == Served("rename") /\ th'[1].ret.kind = "Ok"

C5_RenamePreservesIdentity ==
    [][Renamed =>
          LET before == AskLookup(Cur, th'[1].ino, th'[1].name)
              after == AskLookup(Cur', th'[1].ino2, th'[1].name2)
          IN /\ before.kind = "Ok"
             /\ after.kind = "Ok"
             /\ after.ino = before.ino
             /\ nodes' = nodes
             /\ reusable_inode_queue' = reusable_inode_queue
             /\ AskRead(Cur', before.ino, ContentCap, 0)
                    = AskRead(Cur, before.ino, ContentCap, 0)]_vars

\* A file with content has just been moved from one directory to another.
C5_Witness ==
    /\ th[1].pc = "done" /\ th[1].op = "rename" /\ th[1].ret.kind = "Ok"
    /\ th[1].ino # th[1].ino2
    /\ th[1].ino2 \in LiveDirs
    /\ LET moved == NodeOf(th[1].ino2).entries[th[1].name2]
       IN moved \in LiveFiles /\ NodeOf(moved).data # <<>>

---------------------------------------------------------------------------
(* C6: after unlink or rmdir removes the node with inode i, the next inode  *)
(* allocation (by mkdir or mknod, with no other removal in between) returns *)
(* i.  last_removed is that i, 0 once an inode has been allocated.          *)

Created == (Served("mkdir") \/ Served("mknod")) /\ th'[1].ret.kind = "Ok"

C6_InodeRecycling ==
    [][(Created /\ last_removed # 0) => th'[1].ret.ino = last_removed]_vars

\* An inode has just been allocated from a queue that held two.
C6_Witness ==
    /\ th[1].pc = "done" /\ th[1].op \in {"mkdir", "mknod"} /\ th[1].ret.kind = "Ok"
    /\ Len(reusable_inode_queue) = 1
    /\ th[1].ret.ino > reusable_inode_queue[1]

---------------------------------------------------------------------------
(* C7: setattr(size = N) on a file makes its content exactly N bytes, the   *)
(* first min(old length, N) kept and the growth zero, so that getattr then  *)
(* reports size N; a second setattr(size = N) leaves the content unchanged. *)

Truncated == Served("setattr") /\ th'[1].ino \in LiveFiles

C7_Truncation ==
    [][Truncated =>
          LET N == th'[1].size
              old == NodeOf(th'[1].ino).data
              new == heap'[nodes'[th'[1].ino]].data
              again == After(Cur', SetattrRequest(th'[1].ino, N, th'[1].valid),
                             "setattr_load")
          IN /\ Len(new) = N
             /\ \A i \in 1..N : new[i] = IF i <= Len(old) THEN old[i] ELSE 0
             /\ th'[1].ret.kind = "Ok" /\ th'[1].ret.size = N
             /\ AskGetattr(Cur', th'[1].ino).size = N
             /\ again.heap[again.nodes[th'[1].ino]].data = new]_vars

\* A file with content has just been grown by a truncation.
C7_Witness ==
    /\ th[1].pc = "done" /\ th[1].op = "setattr" /\ th[1].ret.kind = "Ok"
    /\ th[1].ino \in LiveFiles
    /\ LET data == NodeOf(th[1].ino).data
       IN Len(data) = th[1].size /\ Len(data) >= 2 /\ data[1] # 0 /\ data[Len(data)] = 0

---------------------------------------------------------------------------
(* C8: after init readdir(root) emits nothing, and after any sequence of    *)
(* requests readdir from offset 0 of a directory emits exactly the names    *)
(* inserted into it and not removed since, in lexicographic order.          *)

ListedNames(list) == {list[k].name : k \in 1..Len(list)}
Ascending(list) == \A k \in 1..(Len(list) - 1) : list[k].name < list[k + 1].name

C8_ReaddirRoundTrip ==
    \A t \in Threads :
        (/\ th[t].pc = "done" /\ th[t].op = "readdir"
         /\ th[t].ino \in LiveDirs
         /\ th[t].off = 0
         /\ th[t].size >= Cardinality(NodeOf(th[t].ino).inserted))
            => /\ th[t].ret.kind = "Ok"
               /\ ListedNames(th[t].ret.list) = NodeOf(th[t].ino).inserted
               /\ Len(th[t].ret.list) = Cardinality(NodeOf(th[t].ino).inserted)
               /\ Ascending(th[t].ret.list)
               /\ (reusable_inode_queue = <<>> /\ Len(nodes) = 1 => th[t].ret.list = <<>>)

\* A directory with two names has just been listed.
C8_Witness ==
    \E t \in Threads :
        /\ th[t].pc = "done" /\ th[t].op = "readdir" /\ th[t].ret.kind = "Ok"
        /\ th[t].off = 0
        /\ Len(th[t].ret.list) = 2

---------------------------------------------------------------------------
(* C1: in every reachable state, the intermediate states of concurrently    *)
(* running mknod and mkdir included, every name->inode entry of a live      *)
(* directory that a lookup or readdir could read (its lock is not held for   *)
(* writing) refers to an inode whose slot holds a node.                     *)

C1_EntriesReferToLiveSlots ==
    \A d \in LiveDirs :
        NodeOf(d).lock.w = 0
            => \A n \in Names : NodeOf(d).entries[n] # 0 => NodeOf(d).entries[n] \in Live

---------------------------------------------------------------------------
(* C4: concurrent writes to distinct files never interfere (a file's        *)
(* content changes only in a write addressed to it, and becomes what that   *)
(* write makes of the content before it), and a read running concurrently   *)
(* with a write on the same file returns the bytes of the content either    *)
(* entirely before or entirely after that write.                            *)

\* What write(offset, buf) makes of data.
Written(data, offset, buf) ==
    LET range == WriteRange(Len(data), offset, Len(buf))
    IN SpliceFill(Drained(data, range), buf, DrainTail(data, range))

\* A completed read returned the range of the content some whole number of
\* writes had produced.
ReadsSeeWholeWrites ==
    \A t \in Threads :
        (th[t].pc = "done" /\ th[t].op = "read" /\ th[t].ret.kind = "Ok")
            => th[t].ret.bytes = ReadRange(th[t].snap, th[t].off, th[t].size)

\* A step changes the bytes of an object only as part of a write to it, and
\* the content a write leaves is that write applied to the content before it.
WritesStayInTheirFile ==
    \A o \in ObjIds :
        /\ heap'[o].data # heap[o].data
            => \E t \in Threads :
                /\ th[t].op = "write" /\ th[t].h1 = o
                /\ th[t].pc \in {"write_data", "write_splice"}
                /\ th'[t] # th[t]
        /\ heap'[o].committed # heap[o].committed
            => \E t \in Threads :
                /\ th[t].op = "write" /\ th[t].h1 = o /\ th[t].pc = "write_splice"
                /\ th'[t].pc = "done"
                /\ heap'[o].committed = Written(heap[o].committed, th[t].off, th[t].buf)
                /\ heap'[o].data = heap'[o].committed

C4_FileIOSafe == []ReadsSeeWholeWrites /\ [][WritesStayInTheirFile]_vars

\* A read of a file has returned bytes another worker wrote, while that worker
\* is in the middle of its next write to the same file.
C4_Witness ==
    \E t, u \in Threads :
        /\ t # u
        /\ th[t].pc = "done" /\ th[t].op = "read" /\ th[t].ret.kind = "Ok"
        /\ Len(th[t].ret.bytes) > 0
        /\ th[u].op = "write" /\ th[u].pc = "write_splice" /\ th[u].ino = th[t].ino
        /\ heap[th[u].h1].data # heap[th[u].h1].committed

---------------------------------------------------------------------------
(* C11: mkdir or mknod with a name already present in the parent directory  *)
(* fails with AlreadyExists, allocates no inode, and leaves the existing    *)
(* entry and the node it refers to unchanged.                               *)

CreateOfTakenName ==
    /\ Served("mkdir") \/ Served("mknod")
    /\ th'[1].ino \in LiveDirs
    /\ NodeOf(th'[1].ino).entries[th'[1].name] # 0

C11_CreateAlreadyExists ==
    [][CreateOfTakenName =>
          /\ th'[1].ret.kind = "AlreadyExists"
          /\ nodes' = nodes
          /\ reusable_inode_queue' = reusable_inode_queue
          /\ heap' = heap]_vars

---------------------------------------------------------------------------
(* Renames and lookups on concurrent workers *)

rename_begin(t, olddir, oldname, newdir, newname) ==
    Mounted /\ Free(t)
    /\ Enter(t, Request("rename", olddir, oldname, newdir, newname, 0, 0, <<>>), "rename_load")
rename_next(t) == Advance(t, "rename")

\* The store after init and mkdir(1, name 1) have been served: the root and a
\* directory in it.
TwoDirs ==
    LET mounted == init_step(New)
        one == After(mounted, Request("mkdir", 1, 1, 0, 0, 0, 0, <<>>), "mkdir_load")
    IN [one EXCEPT !.th[1] = IdleThread]

InitTwoDirs == Is(TwoDirs)

NextRenameConc ==
    \E t \in Threads :
        \/ Return(t)
        \/ \E o \in ValidInodes, n \in ValidInodes, a \in Names, b \in Names :
              rename_begin(t, o, a, n, b)
        \/ rename_next(t)
        \/ \E p \in ValidInodes, n \in Names : lookup_begin(t, p, n)
        \/ lookup_next(t)

SpecRenameConc == InitTwoDirs /\ [][NextRenameConc]_vars

\* Worker t has started a request and not returned from it.
Busy(t) == th[t].pc \notin {"idle", "done", "panicked"}
\* Worker t waits for a lock it cannot take.
Blocked(t) == Busy(t) /\ Step(Cur, t) = {}

---------------------------------------------------------------------------
(* C12: a rename with olddir # newdir takes the two directory write locks   *)
(* in strictly ascending inode order: whenever it holds one of them and has *)
(* yet to take the other, the one it holds is the lower-numbered directory. *)

C12_AscendingLockOrder ==
    \A t \in Threads :
        (th[t].op = "rename" /\ th[t].pc \in {"rename_new_load", "rename_new"})
            => /\ heap[th[t].h1].lock.w = t
               /\ th[t].ino < th[t].ino2

---------------------------------------------------------------------------
(* C13: no set of concurrently running requests reaches a state in which    *)
(* each of them waits for a lock another of them holds.                     *)

C13_NoDeadlock ==
    ~ \E W \in SUBSET Threads :
        /\ Cardinality(W) >= 2
        /\ \A t \in W : Blocked(t)
        /\ \A t \in Threads \ W : ~Busy(t)

---------------------------------------------------------------------------
(* C14: rename of a directory into itself or into one of its own            *)
(* descendants is rejected with InvalidInput and changes nothing.           *)

RenameIntoOwnSubtree ==
    /\ Served("rename")
    /\ th'[1].ino \in LiveDirs
    /\ LET moved == NodeOf(th'[1].ino).entries[th'[1].name]
       IN moved \in LiveDirs /\ th'[1].ino2 \in ReachFrom({moved})

C14_RenameIntoDescendant ==
    [][RenameIntoOwnSubtree =>
          /\ th'[1].ret.kind = "InvalidInput"
          /\ nodes' = nodes
          /\ reusable_inode_queue' = reusable_inode_queue
          /\ heap' = heap]_vars

---------------------------------------------------------------------------
(* C15: when rename's newname already exists in the target directory, the   *)
(* rename fails with NotEmpty if the existing target is a non-empty         *)
(* directory; otherwise the old target is destroyed (its slot cleared, its  *)
(* inode pushed on the free queue) and newname refers to the moved node.    *)

\* The inode the entry name of live directory dir refers to, 0 if none.
EntryOf(dir, name) == IF dir \in LiveDirs THEN NodeOf(dir).entries[name] ELSE 0

RenameOntoExisting ==
    /\ Served("rename")
    /\ EntryOf(th'[1].ino, th'[1].name) \in Live
    /\ EntryOf(th'[1].ino2, th'[1].name2) \in Live
    /\ EntryOf(th'[1].ino2, th'[1].name2) # EntryOf(th'[1].ino, th'[1].name)

C15_RenameReplacesTarget ==
    [][RenameOntoExisting =>
          LET moved == EntryOf(th'[1].ino, th'[1].name)
              target == EntryOf(th'[1].ino2, th'[1].name2)
          IN IF target \in LiveDirs /\ EntryCount(NodeOf(target)) > 0
             THEN th'[1].ret.kind = "NotEmpty"
             ELSE /\ th'[1].ret.kind = "Ok"
                  /\ nodes'[target] = 0
                  /\ \E k \in 1..Len(reusable_inode_queue') : reusable_inode_queue'[k] = target
                  /\ heap'[nodes'[th'[1].ino2]].entries[th'[1].name2] = moved]_vars

---------------------------------------------------------------------------
(* C16: every request that returns an error leaves the inode table, the     *)
(* free queue, every directory's entries and every file's content exactly   *)
(* as they were before the call.                                            *)

Failed == th[1].pc = "idle" /\ th'[1].pc = "done" /\ th'[1].ret.kind # "Ok"

C16_ErrorsChangeNothing ==
    [][Failed =>
          /\ nodes' = nodes
          /\ reusable_inode_queue' = reusable_inode_queue
          /\ heap' = heap]_vars

\* A rename between two directories has just failed for a missing oldname,
\* in a source directory that holds another entry.
C16_Witness ==
    /\ th[1].pc = "done" /\ th[1].op = "rename" /\ th[1].ret.kind = "NotFound"
    /\ th[1].ino # th[1].ino2
    /\ th[1].ino \in LiveDirs /\ th[1].ino2 \in LiveDirs
    /\ NodeOf(th[1].ino).entries[th[1].name] = 0
    /\ EntryCount(NodeOf(th[1].ino)) > 0

---------------------------------------------------------------------------
(* Requests whose names may be invalid UTF-8, one at a time *)

AnyName == Names \cup {BadName}

NextBadNames ==
    \/ init
    \/ Return(1)
    \/ \E p \in ValidInodes, n \in AnyName : lookup(p, n)
    \/ \E p \in ValidInodes, n \in AnyName : mkdir(p, n)
    \/ \E p \in ValidInodes, n \in AnyName : rmdir(p, n)
    \/ \E p \in ValidInodes, n \in AnyName : mknod(p, n)
    \/ \E p \in ValidInodes, n \in AnyName : unlink(p, n)
    \/ \E p \in ValidInodes, n \in AnyName, q \in ValidInodes, m \in AnyName : rename(p, n, q, m)

SpecBadNames == Init /\ [][NextBadNames]_vars

---------------------------------------------------------------------------
(* C17: a request given a name that is not valid UTF-8 (lookup, mkdir,      *)
(* mknod, rmdir, unlink, rename) returns InvalidInput without allocating an *)
(* inode or changing the store, and the session goes on serving requests.   *)

GivenBadName ==
    /\ th[1].pc = "idle" /\ th'[1].pc # "idle"
    /\ th'[1].op \in {"lookup", "mkdir", "mknod", "rmdir", "unlink", "rename"}
    /\ th'[1].name = BadName \/ (th'[1].op = "rename" /\ th'[1].name2 = BadName)

C17_BadNameRejected ==
    [][GivenBadName =>
          /\ th'[1].pc = "done"
          /\ th'[1].ret.kind = "InvalidInput"
          /\ nodes' = nodes
          /\ reusable_inode_queue' = reusable_inode_queue
          /\ heap' = heap]_vars

---------------------------------------------------------------------------
(* ServerSession::start: the session loop, serving one request at a time *)

store == <<nodes, reusable_inode_queue, heap, nodes_lock, queue_lock, th, last_removed>>

\* channel.get_request() has a request to give: Ok(Some((reader, writer)))
Receiving == session = "get_request" /\ transport = "open"

\* session.umount(), called from outside the loop: the channel reports the
\* end of the request stream from then on.
umount ==
    /\ transport = "open"
    /\ transport' = "eos"
    /\ UNCHANGED <<store, session>>

\* The transport breaks: get_request() gives Err from then on.
transport_fails ==
    /\ transport = "open"
    /\ transport' = "failed"
    /\ UNCHANGED <<store, session>>

\* Ok(None) => info!("Cant handle message")
get_request_none ==
    /\ session = "get_request" /\ transport = "eos" /\ Quiet
    /\ session' = "no_message"
    /\ UNCHANGED <<store, transport>>

\* the end of the loop's body after Ok(None): the loop goes round
loop_again ==
    /\ session = "no_message"
    /\ session' = "get_request"
    /\ UNCHANGED <<store, transport>>

\* Err(e) => error!(..); break
get_request_err ==
    /\ session = "get_request" /\ transport = "failed" /\ Quiet
    /\ session' = "returned"
    /\ UNCHANGED <<store, transport>>

\* The steps the loop's thread takes by itself.
Loop == Return(1) \/ get_request_none \/ loop_again \/ get_request_err

NextSession ==
    \/ Receiving /\ init
    \/ Return(1)
    \/ Receiving /\ \E p \in ValidInodes, n \in Names : lookup(p, n)
    \/ Receiving /\ \E p \in ValidInodes, n \in Names : mkdir(p, n)
    \/ Receiving /\ \E p \in ValidInodes, n \in Names : rmdir(p, n)
    \/ Receiving /\ \E p \in ValidInodes, n \in Names : mknod(p, n)
    \/ Receiving /\ \E p \in ValidInodes, n \in Names : unlink(p, n)
    \/ umount
    \/ transport_fails
    \/ get_request_none
    \/ loop_again
    \/ get_request_err

SpecSession == Init /\ [][NextSession]_vars /\ WF_vars(Loop)

---------------------------------------------------------------------------
(* C18: once the transport fails or, after an unmount, reports the end of   *)
(* the request stream, the session loop terminates (start() eventually      *)
(* returns); an error from handling a single request does not stop the      *)
(* loop.                                                                    *)

RequestFailed == th[1].pc = "idle" /\ th'[1].pc = "done" /\ th'[1].ret.kind # "Ok"

C18_LoopTerminates ==
    /\ (transport # "open") ~> (session = "returned")
    /\ [][RequestFailed => session' = "get_request"]_vars

---------------------------------------------------------------------------
(* C19: after init, in every reachable state slot 0 holds the root          *)
(* directory with inode 1, no directory entry refers to inode 1, inode 1 is *)
(* never in the free queue, and no rmdir, unlink or rename removes or moves *)
(* the root.                                                                *)

RootInPlace ==
    Mounted =>
        /\ nodes[1] # 0
        /\ heap[nodes[1]].kind = "Folder"
        /\ heap[nodes[1]].inode = 1
        /\ \A o \in ObjIds : \A n \in Names : heap[o].entries[n] # 1
        /\ \A k \in 1..Len(reusable_inode_queue) : reusable_inode_queue[k] # 1

RootStays == Mounted => nodes'[1] = nodes[1]

C19_RootIsFixed == []RootInPlace /\ [][RootStays]_vars

\* A removal has just been served in a full table that holds a directory
\* with an entry, and its inode waits in the free queue.
C19_Witness ==
    /\ th[1].pc = "done" /\ th[1].op \in {"rmdir", "unlink"} /\ th[1].ret.kind = "Ok"
    /\ Len(nodes) = MaxSlots
    /\ reusable_inode_queue # <<>>
    /\ \E d \in LiveDirs \ {1} : EntryCount(NodeOf(d)) > 0

---------------------------------------------------------------------------
(* Creations and removals in the root directory on concurrent workers *)

\* The inode init gives the root.
RootInode == 1

NextRecycleConc ==
    \/ init
    \/ \E t \in Threads :
        \/ Return(t)
        \/ \E n \in Names : mkdir_begin(t, RootInode, n)
        \/ mkdir_next(t)
        \/ \E n \in Names : rmdir_begin(t, RootInode, n)
        \/ rmdir_next(t)
        \/ \E n \in Names : mknod_begin(t, RootInode, n)
        \/ mknod_next(t)
        \/ \E n \in Names : unlink_begin(t, RootInode, n)
        \/ unlink_next(t)

SpecRecycleConc == Init /\ [][NextRecycleConc]_vars

---------------------------------------------------------------------------
(* C20: in every reachable state, also while mknod, mkdir, unlink and rmdir *)
(* run concurrently, every inode in the reusable-inode queue has an empty   *)
(* slot in the node table and is not referenced by any directory entry.     *)

C20_FreeInodesAreFree ==
    \A k \in 1..Len(reusable_inode_queue) :
        LET i == reusable_inode_queue[k]
        IN /\ nodes[i] = 0
           /\ ParentEntries(i) = {}

---------------------------------------------------------------------------
(* C21: for any interleaving of concurrent mkdir, mknod, rmdir and unlink,  *)
(* an allocation never returns an inode whose slot holds a live node: while *)
(* a creation holds an allocated inode it has yet to install, that inode's  *)
(* slot is empty, and installing a new node never overwrites a live one.    *)

\* Worker t holds an inode from next_inode() whose node it has yet to install.
Allocated(t) == th[t].pc \in {"mkdir_install", "mknod_install"}

AllocatedSlotsAreEmpty == \A t \in Threads : Allocated(t) => nodes[th[t].x] = 0

NoLiveNodeOverwritten ==
    \A i \in 1..Len(nodes) : (nodes[i] # 0 /\ nodes'[i] # 0) => nodes'[i] = nodes[i]

C21_AllocationUniqueWhileLive ==
    []AllocatedSlotsAreEmpty /\ [][NoLiveNodeOverwritten]_vars

---------------------------------------------------------------------------
(* Requests on any inode number, one at a time *)

\* Inode 0, the inodes of the table, and the first inode past its end.
AnyInode == 0..(Len(nodes) + 1)

NextBadInodes ==
    \/ init
    \/ Return(1)
    \/ \E p \in ValidInodes, n \in Names : mkdir(p, n)
    \/ \E p \in ValidInodes, n \in Names : mknod(p, n)
    \/ \E p \in AnyInode, n \in Names : lookup(p, n)
    \/ \E i \in AnyInode : getattr(i)
    \/ \E i \in AnyInode, z \in 0..1 : setattr(i, z, {"SIZE"})
    \/ \E i \in AnyInode : readdir(i, MaxNames, 0)
    \/ \E i \in AnyInode : open(i)
    \/ \E i \in AnyInode : read(i, MaxBuf, 0)
    \/ \E i \in AnyInode, b \in Bufs : Len(b) = 1 /\ write(i, b, 1, 0)

SpecBadInodes == Init /\ [][NextBadInodes]_vars

---------------------------------------------------------------------------
(* C22: getattr, setattr, open, read, write, lookup and readdir on inode 0  *)
(* or on an inode greater than the number of slots return NotFound, as for  *)
(* an empty slot, and the operation is never aborted.                       *)

GivenInodeOutsideTable ==
    /\ th[1].pc = "idle" /\ th'[1].pc # "idle"
    /\ th'[1].op \in {"getattr", "setattr", "open", "read", "write", "lookup", "readdir"}
    /\ th'[1].ino \notin 1..Len(nodes)

C22_LoadOutsideTableNotFound ==
    [][GivenInodeOutsideTable =>
          /\ th'[1].pc = "done"
          /\ th'[1].ret.kind = "NotFound"]_vars

---------------------------------------------------------------------------
(* setattr requests with every mask, one at a time, on files with content   *)

NextSetattr ==
    \/ init
    \/ Return(1)
    \/ \E p \in ValidInodes, n \in Names : mkdir(p, n)
    \/ \E p \in ValidInodes, n \in Names : mknod(p, n)
    \/ \E i \in ValidInodes, b \in Bufs : write(i, b, Len(b), 0)
    \/ \E i \in ValidInodes, z \in Sizes, v \in SUBSET SetattrValid : setattr(i, z, v)

SpecSetattr == Init /\ [][NextSetattr]_vars

---------------------------------------------------------------------------
(* C23: a setattr whose valid mask does not include size leaves the bytes   *)
(* and the length of the file unchanged, and a setattr on a directory       *)
(* changes nothing.                                                         *)

SetattrWithoutSize ==
    Served("setattr") /\ th'[1].ino \in LiveFiles /\ "SIZE" \notin th'[1].valid

SetattrOnDirectory == Served("setattr") /\ th'[1].ino \in LiveDirs

C23_SetattrFrame ==
    [][/\ SetattrWithoutSize => heap'[nodes'[th'[1].ino]].data = NodeOf(th'[1].ino).data
       /\ SetattrOnDirectory =>
              /\ nodes' = nodes
              /\ reusable_inode_queue' = reusable_inode_queue
              /\ heap' = heap]_vars

---------------------------------------------------------------------------
(* C24: each DirEntry emitted by readdir(inode, offset = k) carries as its  *)
(* offset its 1-based position in the directory's full listing: k + 1 for   *)
(* the first entry emitted, k + 2 for the next, and so on.                  *)

C24_DirEntryOffsets ==
    \A t \in Threads :
        (th[t].pc = "done" /\ th[t].op = "readdir" /\ th[t].ret.kind = "Ok")
            => \A k \in 1..Len(th[t].ret.list) : th[t].ret.list[k].offset = th[t].off + k

---------------------------------------------------------------------------
(* C25: lookup, readdir, mkdir, mknod, rmdir and unlink on an inode that is *)
(* a file, and rename with either directory being a file, fail with         *)
(* NotADirectory and change nothing.                                        *)

DirectoryOps == {"lookup", "readdir", "mkdir", "mknod", "rmdir", "unlink", "rename"}

GivenFileAsDirectory ==
    /\ th[1].pc = "idle" /\ th'[1].pc # "idle"
    /\ th'[1].op \in DirectoryOps
    /\ IF th'[1].op = "rename"
       THEN /\ {th'[1].ino, th'[1].ino2} \subseteq Live
            /\ {th'[1].ino, th'[1].ino2} \cap LiveFiles # {}
       ELSE th'[1].ino \in LiveFiles

C25_FileAsDirectory ==
    [][GivenFileAsDirectory =>
          /\ th'[1].pc = "done"
          /\ th'[1].ret.kind = "NotADirectory"
          /\ nodes' = nodes
          /\ reusable_inode_queue' = reusable_inode_queue
          /\ heap' = heap]_vars

---------------------------------------------------------------------------
(* C26: unlink(parent, name) where name refers to a directory fails with    *)
(* IsADirectory and leaves the parent's entry, the directory's slot and the *)
(* free queue unchanged.                                                    *)

UnlinkOfDirectory ==
    /\ th[1].pc = "idle" /\ th'[1].pc # "idle"
    /\ th'[1].op = "unlink"
    /\ th'[1].ino \in LiveDirs
    /\ EntryOf(th'[1].ino, th'[1].name) \in LiveDirs

C26_UnlinkDirectory ==
    [][UnlinkOfDirectory =>
          /\ th'[1].pc = "done"
          /\ th'[1].ret.kind = "IsADirectory"
          /\ nodes' = nodes
          /\ reusable_inode_queue' = reusable_inode_queue
          /\ heap' = heap]_vars

---------------------------------------------------------------------------
(* Removals and lookups on concurrent workers, in a root that holds a       *)
(* directory and a file; nothing is created, so a name once removed stays   *)
(* removed.                                                                 *)

DirAndFile ==
    LET mounted == init_step(New)
        one == After(mounted, Request("mkdir", 1, 1, 0, 0, 0, 0, <<>>), "mkdir_load")
        two == After([one EXCEPT !.th[1] = IdleThread],
                     Request("mknod", 1, 2, 0, 0, 0, 0, <<>>), "mknod_load")
    IN [two EXCEPT !.th[1] = IdleThread]

InitDirAndFile == Is(DirAndFile)

NextRemoveConc ==
    \E t \in Threads :
        \/ Return(t)
        \/ \E n \in Names : rmdir_begin(t, RootInode, n)
        \/ rmdir_next(t)
        \/ \E n \in Names : unlink_begin(t, RootInode, n)
        \/ unlink_next(t)
        \/ \E n \in Names : lookup_begin(t, RootInode, n)
        \/ lookup_next(t)

SpecRemoveConc == InitDirAndFile /\ [][NextRemoveConc]_vars

---------------------------------------------------------------------------
(* C27: the entry removal and the slot clear of rmdir and unlink are        *)
(* observably atomic: a lookup running concurrently with the removal of     *)
(* (parent, name) returns NotFound only when the entry is removed and the   *)
(* slot is cleared; it never observes the entry removed while the slot is   *)
(* still live.                                                              *)

\* Worker u has removed the entry of its request and has yet to clear the slot.
EntryRemovedSlotPending(u) == th[u].pc \in {"rmdir_clear", "unlink_clear"}

\* Worker t has looked up the name worker u is removing and was told NotFound.
ToldNotFound(t, u) ==
    /\ th[t].pc = "done" /\ th[t].op = "lookup" /\ th[t].ret.kind = "NotFound"
    /\ th[t].ino = th[u].ino /\ th[t].name = th[u].name

C27_RemovalObservablyAtomic ==
    \A t \in Threads, u \in Threads :
        (EntryRemovedSlotPending(u) /\ ToldNotFound(t, u)) => nodes[th[u].x] = 0

---------------------------------------------------------------------------
(* C28: table-lock discipline: in every reachable state no operation holds  *)
(* the table lock while it holds a per-node lock, and the table lock is     *)
(* acquired only outside per-node locks or after releasing them: a worker   *)
(* whose step takes nodes.read() or nodes.write() holds no node's lock.     *)

\* The steps that take self.nodes.read() (load) or self.nodes.write().
TableLockSteps ==
    {"lookup_load", "lookup_child_load", "getattr_load", "setattr_load", "mkdir_load",
     "mkdir_grow", "mkdir_install", "rmdir_load", "rmdir_clear", "mknod_load",
     "mknod_grow", "mknod_install", "unlink_load", "unlink_clear", "rename_load",
     "rename_new_load", "readdir_load", "readdir_child_load", "open_load", "read_load",
     "write_load"}

\* Worker t holds the lock of some node, or of some file's data.
HoldsNodeLock(t) ==
    \E o \in ObjIds : \/ heap[o].lock.w = t \/ heap[o].lock.r[t] > 0
                      \/ heap[o].dlock.w = t \/ heap[o].dlock.r[t] > 0

C28_TableLockDiscipline ==
    \A t \in Threads :
        (nodes_lock = t \/ th[t].pc \in TableLockSteps) => ~HoldsNodeLock(t)

---------------------------------------------------------------------------
(* The session's one worker, one request at a time, with the steps of the   *)
(* handler visible as states                                                *)

NextSteps ==
    \/ init
    \/ Return(1)
    \/ \E p \in ValidInodes, n \in Names : lookup_begin(1, p, n)
    \/ lookup_next(1)
    \/ \E p \in ValidInodes, n \in Names : mkdir_begin(1, p, n)
    \/ mkdir_next(1)
    \/ \E p \in ValidInodes, n \in Names : mknod_begin(1, p, n)
    \/ mknod_next(1)
    \/ \E o \in ValidInodes, n \in ValidInodes, a \in Names, b \in Names :
          rename_begin(1, o, a, n, b)
    \/ rename_next(1)

SpecSteps == Init /\ [][NextSteps]_vars

====
